---- MODULE Spec2Model ----
(***************************************************************************)
(* The receiver of PacketStreamer (pkg/streamer/receiver.go): the socket   *)
(* reader readDataFromSocket, the per-connection read loop readPkts, the   *)
(* acceptor processHost and the tasks StartReceiver wires to them.         *)
(*                                                                         *)
(* Bytes are the integers 0..255; a Go slice index j is the TLA+ index     *)
(* j + 1.  int is taken to be 64 bits wide (the conversion of the uint32   *)
(* length field to int at receiver.go:86 is then value preserving).        *)
(***************************************************************************)
EXTENDS Integers, Sequences, FiniteSets, TLC

(* ---------------------------- program constants ------------------------ *)

compressFlagByteLen == 1

payloadMarkerLen == 4

hdrData == <<222, 239, 236, 224>>

totalHdrLen == Len(hdrData) + payloadMarkerLen + compressFlagByteLen

(* ------------------------------- bounds -------------------------------- *)

\* capacity of a frame queue and of the size queue (100 in the source,
\* receiver.go:20), scaled down so that a full queue is reached
maxNumPkts == 2

\* capacity of the output queue as a multiple of maxNumPkts (10 in the
\* source, receiver.go:197), scaled down
outputQueueFactor == 1

\* config.CompressBlockSize * kilobyte: the length of a connection's buffer
compressBlockBytes == 11

\* frames readPkts builds for a client of two before the client goes away
MaxFrames == 3

\* the same for the client of a read loop checked alone
MaxFramesOne == 2

\* largest byte count asked of the socket reader when it is checked alone
MaxRead == 3

(* ------------------------------- helpers ------------------------------- *)

Conns == {"A", "B"}

Min(a, b) == IF a <= b THEN a ELSE b

\* make([]byte, n): n zero bytes
ZeroBuf(n) == [i \in 1..n |-> 0]

\* a Read of the transport: the bytes it stored and the error it returned
ReadResult(d, e) == [data |-> d, err |-> e]

ReadErrs == {"EOF", "timeout", "other"}

(* --------------------------- readDataFromSocket ------------------------ *)

\* mutant of StoreRead: every Read stores at the start of the slice
StoreRead_atStart(buf, lo, total, n, data) ==
    LET k == Min(Len(data), n - total) IN
    [i \in 1..Len(buf) |->
        IF i > lo /\ i <= lo + k THEN data[i - lo] ELSE buf[i]]

\* hostConn.Read(dataBuff[totalBytesRead:]) where dataBuff is buf[lo:lo+n]:
\* the bytes land at slice offset totalBytesRead, never past the slice end
StoreRead(buf, lo, total, n, data) ==
    LET k == Min(Len(data), n - total) IN
    [i \in 1..Len(buf) |->
        IF i > lo + total /\ i <= lo + total + k THEN data[i - lo - total]
        ELSE buf[i]]

\* mutant of readIter: a Read that brings nothing and no error is tried again
readIter_zeroSpins(st, r) ==
    LET bytesRead == Min(Len(r.data), st.n - st.total)
        stored == [st EXCEPT !.buf = StoreRead(st.buf, st.lo, st.total, st.n, r.data),
                             !.iters = st.iters + 1]
    IN  IF r.err # "nil" /\ r.err # "EOF" /\ r.err # "timeout"
          THEN [stored EXCEPT !.ret = "ErrClosed"]
        ELSE IF r.err = "EOF" /\ st.total # st.n
          THEN [stored EXCEPT !.ret = "ErrAbrupt"]
        ELSE IF r.err = "timeout" /\ st.total # st.n
          THEN [stored EXCEPT !.ret = "ErrTimeout"]
        ELSE IF bytesRead = 0 /\ r.err # "nil"
          THEN [stored EXCEPT !.ret = "nil"]
        ELSE IF bytesRead = 0 /\ r.err = "nil"
          THEN stored
        ELSE [stored EXCEPT !.total = st.total + bytesRead,
                            !.ret = IF st.total + bytesRead = st.n
                                      THEN "nil" ELSE "running"]

\* mutant of readIter: an expired deadline is not told from a Read that
\* brought nothing
readIter_noTimeout(st, r) ==
    LET bytesRead == Min(Len(r.data), st.n - st.total)
        stored == [st EXCEPT !.buf = StoreRead(st.buf, st.lo, st.total, st.n, r.data),
                             !.iters = st.iters + 1]
    IN  IF r.err # "nil" /\ r.err # "EOF" /\ r.err # "timeout"
          THEN [stored EXCEPT !.ret = "ErrClosed"]
        ELSE IF r.err = "EOF" /\ st.total # st.n
          THEN [stored EXCEPT !.ret = "ErrAbrupt"]
        ELSE IF bytesRead = 0
          THEN [stored EXCEPT !.ret = "nil"]
        ELSE [stored EXCEPT !.total = st.total + bytesRead,
                            !.ret = IF st.total + bytesRead = st.n
                                      THEN "nil" ELSE "running"]

\* mutant of readIter: end-of-stream before n bytes is not told from success
readIter_noAbrupt(st, r) ==
    LET bytesRead == Min(Len(r.data), st.n - st.total)
        stored == [st EXCEPT !.buf = StoreRead(st.buf, st.lo, st.total, st.n, r.data),
                             !.iters = st.iters + 1]
    IN  IF r.err # "nil" /\ r.err # "EOF" /\ r.err # "timeout"
          THEN [stored EXCEPT !.ret = "ErrClosed"]
        ELSE IF r.err = "timeout" /\ st.total # st.n
          THEN [stored EXCEPT !.ret = "ErrTimeout"]
        ELSE IF bytesRead = 0
          THEN [stored EXCEPT !.ret = "nil"]
        ELSE [stored EXCEPT !.total = st.total + bytesRead,
                            !.ret = IF st.total + bytesRead = st.n
                                      THEN "nil" ELSE "running"]

\* one iteration of the loop of readDataFromSocket on the reader state
\* st = [buf, lo, total (totalBytesRead), n (bytesToRead), ret, iters]
\* ret is "running" while the loop goes on, else what the call returned:
\* "nil", "ErrClosed" (line 40), "ErrAbrupt" (line 43), "ErrTimeout" (line 46)
readIter(st, r) ==
    LET bytesRead == Min(Len(r.data), st.n - st.total)
        stored == [st EXCEPT !.buf = StoreRead(st.buf, st.lo, st.total, st.n, r.data),
                             !.iters = st.iters + 1]
    IN  IF r.err # "nil" /\ r.err # "EOF" /\ r.err # "timeout"
          THEN [stored EXCEPT !.ret = "ErrClosed"]
        ELSE IF r.err = "EOF" /\ st.total # st.n
          THEN [stored EXCEPT !.ret = "ErrAbrupt"]
        ELSE IF r.err = "timeout" /\ st.total # st.n
          THEN [stored EXCEPT !.ret = "ErrTimeout"]
        ELSE IF bytesRead = 0 /\ r.err # "nil"
          THEN [stored EXCEPT !.ret = "nil"]
        ELSE IF bytesRead = 0 /\ r.err = "nil"
          THEN [stored EXCEPT !.ret = "nil"]
        ELSE [stored EXCEPT !.total = st.total + bytesRead,
                            !.ret = IF st.total + bytesRead = st.n
                                      THEN "nil" ELSE "running"]

\* the reader state at the call readDataFromSocket(buf[lo:lo+n], n)
readStart(buf, lo, n) ==
    [buf |-> buf, lo |-> lo, total |-> 0, n |-> n, ret |-> "running", iters |-> 0]

RECURSIVE readLoop(_, _)
readLoop(st, reads) ==
    IF st.ret # "running" \/ reads = <<>> THEN st
    ELSE readLoop(readIter(st, Head(reads)), Tail(reads))

\* the whole call, the transport answering its Reads with `reads` in turn
readDataFromSocket(buf, lo, n, reads) == readLoop(readStart(buf, lo, n), reads)

(* ------------------------------ the state ------------------------------ *)

VARIABLES
    authEnable,   \* config.Auth.Enable
    listener,     \* "open", or "failed" once Accept returned an error
    conn,         \* conn[c] = [accepted, closes]: the transport handle of c
    authpc,       \* the goroutine of lines 172-178: "none", "pending", "accepted", "rejected"
    chan,         \* chan[c] = [made, q, closes]: pktUncompressChannel of c
    rpc,          \* where readPkts of c stands: "none",
                  \* "hdr", "hdrRead", "payload", "payRead", "pushFrame", "pushSize", "done"
    dataBuff,     \* dataBuff of readPkts of c
    err,          \* err of readPkts of c: what readDataFromSocket returned last
    frame,        \* dataToUncompress of readPkts of c
    nread,        \* frames readPkts of c has constructed so far
    got,          \* got[c] = [hdr, pay]: how the transport answered the Reads of the
                  \* header read and of the payload read of the current iteration
    dpc,          \* decompressPkts of c: "none", "run", "done"
    sizeChannel,  \* the shared size queue
    outChannel,   \* consolePktOutputChannel
    lastOut,      \* lastOut[c]: which frame of c (the n-th it built) went on
                  \* outChannel last, 0 when none has
    wpc,          \* receiverOutput: "run", "done"
    rd,           \* a call of readDataFromSocket checked alone: the reader state
    rdReads,      \* how the transport has answered the Reads of that call so far
    total,        \* the running byte total, a variable of the package
    spc,          \* calculateDataSize: [pc, n, load]; pc is "recv", "load" or "store",
                  \* n the size it received, load the total it read
    tpc           \* the ticker goroutine of StartReceiver: "wait", or "reset"
                  \* when printDataSize has read the total and not yet reset it

vars == <<authEnable, listener, conn, authpc, chan, rpc, dataBuff, err, frame,
          nread, got, dpc, sizeChannel, outChannel, lastOut, wpc, rd, rdReads,
          total, spc, tpc>>

pipelineVars == <<authEnable, listener, conn, authpc, chan, rpc, dataBuff, err,
                  frame, nread, got, dpc, sizeChannel, outChannel, lastOut, wpc>>

readerVars == <<rd, rdReads>>

samplerVars == <<total, spc, tpc>>

NoFrame == [Data |-> <<>>, IsCompressed |-> FALSE, seq |-> 0]

bufLen == compressBlockBytes

MaxPayload == bufLen - totalHdrLen

(* --------------------------- channels (Go) ----------------------------- *)

\* mutants of tryPush: a send that appends whatever the buffer holds, and a
\* send that puts the item at the front of the buffer
tryPush_unbounded(q, x, cap) == Append(q, x)

tryPush_front(q, x, cap) == IF Len(q) < cap THEN <<x>> \o q ELSE q

\* select { case ch <- x: default: }: a send that never blocks; the item is
\* appended when the buffer has room and is dropped when it is full
tryPush(q, x, cap) == IF Len(q) < cap THEN Append(q, x) ELSE q

\* close(ch)
closeChan(ch) == [ch EXCEPT !.closes = ch.closes + 1]

\* mutant of closeConn: the handle is left open
closeConn_forgotten(cn) == cn

\* clientConn.Close()
closeConn(cn) == [cn EXCEPT !.closes = cn.closes + 1]

(* ------------------------------ Frame Codec ---------------------------- *)

\* mutant of magicOk: the last byte of the magic is not compared
magicOk_short(buf) == SubSeq(buf, 1, Len(hdrData) - 1) = SubSeq(hdrData, 1, Len(hdrData) - 1)

\* bytes.Compare(dataBuff[0:len(hdrData)], hdrData[:]) == 0
magicOk(buf) == SubSeq(buf, 1, Len(hdrData)) = hdrData

\* binary.LittleEndian.Uint32(dataBuff[len(hdrData):])
compressedDataLen(buf) ==
    LET o == Len(hdrData) IN
    buf[o + 1] + 256 * buf[o + 2] + 65536 * buf[o + 3] + 16777216 * buf[o + 4]

\* mutant of lenTooBig: a length that fills the buffer exactly is refused
lenTooBig_strict(n) == n >= bufLen - totalHdrLen

\* int(compressedDataLen) > ((config.CompressBlockSize * kilobyte) - totalHdrLen)
lenTooBig(n) == n > bufLen - totalHdrLen

\* mutant of mkFrame: only a flag byte of 1 counts as compressed
mkFrame_flagOne(buf, n) ==
    [Data |-> SubSeq(buf, totalHdrLen + 1, totalHdrLen + n),
     IsCompressed |-> buf[Len(hdrData) + payloadMarkerLen + 1] = 1]

\* CompressData{Data: string(dataBuff[totalHdrLen:n+totalHdrLen]),
\*              IsCompressed: dataBuff[len(hdrData)+payloadMarkerLen] != 0}
mkFrame(buf, n) ==
    [Data |-> SubSeq(buf, totalHdrLen + 1, totalHdrLen + n),
     IsCompressed |-> buf[Len(hdrData) + payloadMarkerLen + 1] # 0]

(* ------------------------- what a client may send ---------------------- *)

LE32(n) == <<n % 256, (n \div 256) % 256, (n \div 65536) % 256, (n \div 16777216) % 256>>

Header(m, n, f) == m \o LE32(n) \o <<f>>

BadMagics == {<<222, 239, 236, 225>>, <<0, 239, 236, 224>>}

\* A client and its transport, env = [hdrs, bytes, cuts, errs, frames]: the
\* headers and the payload bytes the client sends, where a delivery may be
\* cut in two, how a Read may end short ("nil": no byte and no error), and
\* after how many frames the client goes away.

\* the clients of the two connections of the whole pipeline
EnvSmall == [hdrs |-> {Header(hdrData, 1, 1), Header(<<222, 239, 236, 225>>, 1, 0),
                       Header(hdrData, MaxPayload + 1, 0)},
             bytes |-> {97},
             cuts |-> {},
             errs |-> {"EOF"},
             frames |-> MaxFrames]

\* the client of a connection whose read loop is checked alone
EnvRich == [hdrs |-> {Header(m, n, f) : m \in {hdrData} \cup BadMagics,
                                         n \in {0, MaxPayload, MaxPayload + 1, 256},
                                         f \in {0, 2}},
            bytes |-> {97, 98},
            cuts |-> {1, 4},
            errs |-> ReadErrs \cup {"nil"},
            frames |-> MaxFramesOne]

\* the clients of the pipeline whose writer may fail: whole frames only
EnvFrames == [hdrs |-> {Header(hdrData, 1, 1)},
              bytes |-> {97},
              cuts |-> {},
              errs |-> {"EOF"},
              frames |-> MaxFramesOne]

\* how the transport may answer the Reads of one call for n bytes that the
\* client answers with one of D: it delivers d whole or cut in two at k, or
\* delivers the first k bytes of d (none for k = 0) and then ends short
ReadPlans(D, n, env) ==
    {<<ReadResult(d, "nil")>> : d \in D}
    \cup {<<ReadResult(SubSeq(d, 1, k), "nil"), ReadResult(SubSeq(d, k + 1, n), "nil")>> :
            d \in D, k \in env.cuts \cap (1..(n - 1))}
    \cup {<<ReadResult(<<>>, e)>> : e \in env.errs}
    \cup {<<ReadResult(SubSeq(d, 1, k), "nil"), ReadResult(<<>>, e)>> :
            d \in D, k \in env.cuts \cap (1..(n - 1)), e \in env.errs}

RECURSIVE Delivered(_)
Delivered(reads) ==
    IF reads = <<>> THEN <<>> ELSE Head(reads).data \o Delivered(Tail(reads))

(* ------------------------------- Init ---------------------------------- *)

InitPipeline ==
    /\ authEnable \in BOOLEAN
    /\ listener = "open"
    /\ conn = [c \in Conns |-> [accepted |-> FALSE, closes |-> 0]]
    /\ authpc = [c \in Conns |-> "none"]
    /\ chan = [c \in Conns |-> [made |-> FALSE, q |-> <<>>, closes |-> 0]]
    /\ rpc = [c \in Conns |-> "none"]
    /\ dataBuff = [c \in Conns |-> <<>>]
    /\ err = [c \in Conns |-> "nil"]
    /\ frame = [c \in Conns |-> NoFrame]
    /\ nread = [c \in Conns |-> 0]
    /\ got = [c \in Conns |-> [hdr |-> <<>>, pay |-> <<>>]]
    /\ dpc = [c \in Conns |-> "none"]
    /\ sizeChannel = <<>>
    /\ outChannel = <<>>
    /\ lastOut = [c \in Conns |-> 0]
    /\ wpc = "run"

\* no call of the socket reader is being checked alone
InitReaderIdle ==
    /\ rd = readStart(<<>>, 0, 0)
    /\ rdReads = <<>>

\* calculateDataSize waits for a report, the ticker for its first tick
InitSampler ==
    /\ total = 0
    /\ spc = [pc |-> "recv", n |-> 0, load |-> 0]
    /\ tpc = "wait"

Init == InitPipeline /\ InitReaderIdle /\ InitSampler

(* ----------------------------- processHost ----------------------------- *)

\* mutant of startPipeline: decompressPkts is not started
startPipeline_readerOnly(c) ==
    /\ chan' = [chan EXCEPT ![c] = [made |-> TRUE, q |-> <<>>, closes |-> 0]]
    /\ dpc' = dpc
    /\ rpc' = [rpc EXCEPT ![c] = "hdr"]
    /\ dataBuff' = [dataBuff EXCEPT ![c] = ZeroBuf(bufLen)]

\* lines 174-176 and 181-183: the frame queue of c is made and decompressPkts
\* and readPkts of c are started on it (readPkts allocates dataBuff, line 65)
startPipeline(c) ==
    /\ chan' = [chan EXCEPT ![c] = [made |-> TRUE, q |-> <<>>, closes |-> 0]]
    /\ dpc' = [dpc EXCEPT ![c] = "run"]
    /\ rpc' = [rpc EXCEPT ![c] = "hdr"]
    /\ dataBuff' = [dataBuff EXCEPT ![c] = ZeroBuf(bufLen)]

\* mutant of Accept: the accept loop runs the handshake itself, so that no
\* connection is accepted while a handshake is pending
Accept_waits(c) ==
    /\ listener = "open"
    /\ ~conn[c].accepted
    /\ \A d \in Conns : authpc[d] # "pending"
    /\ conn' = [conn EXCEPT ![c].accepted = TRUE]
    /\ IF authEnable
         THEN /\ authpc' = [authpc EXCEPT ![c] = "pending"]
              /\ UNCHANGED <<chan, dpc, rpc, dataBuff>>
         ELSE /\ startPipeline(c)
              /\ UNCHANGED authpc
    /\ UNCHANGED <<authEnable, listener, err, frame, nread, got, sizeChannel,
                   outChannel, lastOut, wpc, readerVars, samplerVars>>

\* listener.Accept() returns the connection c (lines 164-184)
Accept(c) ==
    /\ listener = "open"
    /\ ~conn[c].accepted
    /\ conn' = [conn EXCEPT ![c].accepted = TRUE]
    /\ IF authEnable
         THEN /\ authpc' = [authpc EXCEPT ![c] = "pending"]
              /\ UNCHANGED <<chan, dpc, rpc, dataBuff>>
         ELSE /\ startPipeline(c)
              /\ UNCHANGED authpc
    /\ UNCHANGED <<authEnable, listener, err, frame, nread, got, sizeChannel,
                   outChannel, lastOut, wpc, readerVars,
                   samplerVars>>

\* listener.Accept() returns an error: the accept loop breaks (lines 165-167);
\* once every client has been accepted the failure would change nothing
AcceptFail ==
    /\ listener = "open"
    /\ \E c \in Conns : ~conn[c].accepted
    /\ listener' = "failed"
    /\ UNCHANGED <<authEnable, conn, authpc, chan, rpc, dataBuff, err, frame, nread,
                   got, dpc, sizeChannel, outChannel, lastOut, wpc, readerVars,
                   samplerVars>>

\* mutant of gateOpens: the pipeline is started whatever the handshake returned
gateOpens_always(ok) == TRUE

\* line 173: the pipeline is started when the handshake returned accepted
gateOpens(ok) == ok

\* handleServerAuth(hostConn) returns rejected: the connection is closed
authReject(cn) == closeConn(cn)

\* the goroutine of lines 172-178 once handleServerAuth has returned ok
AuthDone(c) ==
    /\ authpc[c] = "pending"
    /\ \E ok \in BOOLEAN :
         /\ authpc' = [authpc EXCEPT ![c] = IF ok THEN "accepted" ELSE "rejected"]
         /\ conn' = [conn EXCEPT ![c] = IF ok THEN @ ELSE authReject(@)]
         /\ IF gateOpens(ok)
              THEN startPipeline(c)
              ELSE UNCHANGED <<chan, dpc, rpc, dataBuff>>
    /\ UNCHANGED <<authEnable, listener, err, frame, nread, got, sizeChannel,
                   outChannel, lastOut, wpc, readerVars,
                   samplerVars>>

(* ------------------------------- readPkts ------------------------------ *)

\* mutant of closeAndReturn: the handles and queues of all connections are closed
closeAndReturn_all(c) ==
    /\ conn' = [d \in Conns |-> closeConn(conn[d])]
    /\ chan' = [d \in Conns |-> closeChan(chan[d])]
    /\ rpc' = [rpc EXCEPT ![c] = "done"]
    /\ dataBuff' = [dataBuff EXCEPT ![c] = <<>>]
    /\ err' = [err EXCEPT ![c] = "nil"]
    /\ got' = [got EXCEPT ![c] = [hdr |-> <<>>, pay |-> <<>>]]

\* mutant of closeAndReturn: the return is missing and the loop goes on
closeAndReturn_goesOn(c) ==
    /\ conn' = [conn EXCEPT ![c] = closeConn(@)]
    /\ chan' = [chan EXCEPT ![c] = closeChan(@)]
    /\ rpc' = [rpc EXCEPT ![c] = "hdr"]
    /\ dataBuff' = dataBuff
    /\ err' = [err EXCEPT ![c] = "nil"]
    /\ got' = [got EXCEPT ![c] = [hdr |-> <<>>, pay |-> <<>>]]

\* clientConn.Close(); close(pktUncompressChannel); return
\* (lines 74-76, 81-83, 88-90 and 95-97); the locals of readPkts end with it
closeAndReturn(c) ==
    /\ conn' = [conn EXCEPT ![c] = closeConn(@)]
    /\ chan' = [chan EXCEPT ![c] = closeChan(@)]
    /\ rpc' = [rpc EXCEPT ![c] = "done"]
    /\ dataBuff' = [dataBuff EXCEPT ![c] = <<>>]
    /\ err' = [err EXCEPT ![c] = "nil"]
    /\ got' = [got EXCEPT ![c] = [hdr |-> <<>>, pay |-> <<>>]]

\* line 69: readDataFromSocket(clientConn, dataBuff[0:totalHdrLen], totalHdrLen).
RecvHdr(c, env) ==
    /\ rpc[c] = "hdr"
    /\ \E reads \in ReadPlans(env.hdrs, totalHdrLen, env) :
         LET st == readDataFromSocket(dataBuff[c], 0, totalHdrLen, reads) IN
         /\ st.iters = Len(reads)
         /\ nread[c] < env.frames \/ st.ret # "nil"
         /\ dataBuff' = [dataBuff EXCEPT ![c] = st.buf]
         /\ err' = [err EXCEPT ![c] = st.ret]
         /\ got' = [got EXCEPT ![c] = [hdr |-> reads, pay |-> <<>>]]
    /\ rpc' = [rpc EXCEPT ![c] = "hdrRead"]
    /\ UNCHANGED <<authEnable, listener, conn, authpc, chan, frame, nread, dpc,
                   sizeChannel, outChannel, lastOut, wpc, readerVars,
                   samplerVars>>

\* lines 70-91: the outcome of the header read and the two checks of the header
CheckHdr(c) ==
    /\ rpc[c] = "hdrRead"
    /\ IF err[c] # "nil"
         THEN closeAndReturn(c)
       ELSE IF ~magicOk(dataBuff[c])
         THEN closeAndReturn(c)
       ELSE IF lenTooBig(compressedDataLen(dataBuff[c]))
         THEN closeAndReturn(c)
       ELSE /\ rpc' = [rpc EXCEPT ![c] = "payload"]
            /\ UNCHANGED <<conn, chan, dataBuff, err, got>>
    /\ UNCHANGED <<authEnable, listener, authpc, frame, nread, dpc, sizeChannel,
                   outChannel, lastOut, wpc, readerVars,
                   samplerVars>>

\* line 92: readDataFromSocket(clientConn,
\*            dataBuff[totalHdrLen:(totalHdrLen+int(compressedDataLen))], int(compressedDataLen))
RecvPayload(c, env) ==
    /\ rpc[c] = "payload"
    /\ LET n == compressedDataLen(dataBuff[c]) IN
       \E reads \in ReadPlans([1..n -> env.bytes], n, env) :
         LET st == readDataFromSocket(dataBuff[c], totalHdrLen, n, reads) IN
         /\ st.iters = Len(reads)
         /\ dataBuff' = [dataBuff EXCEPT ![c] = st.buf]
         /\ err' = [err EXCEPT ![c] = st.ret]
         /\ got' = [got EXCEPT ![c].pay = reads]
    /\ rpc' = [rpc EXCEPT ![c] = "payRead"]
    /\ UNCHANGED <<authEnable, listener, conn, authpc, chan, frame, nread, dpc,
                   sizeChannel, outChannel, lastOut, wpc, readerVars,
                   samplerVars>>

\* lines 93-102: the outcome of the payload read and the construction of the frame
BuildFrame(c) ==
    /\ rpc[c] = "payRead"
    /\ IF err[c] # "nil"
         THEN /\ closeAndReturn(c)
              /\ UNCHANGED <<frame, nread>>
         ELSE /\ frame' = [frame EXCEPT ![c] =
                   [Data |-> mkFrame(dataBuff[c], compressedDataLen(dataBuff[c])).Data,
                    IsCompressed |->
                        mkFrame(dataBuff[c], compressedDataLen(dataBuff[c])).IsCompressed,
                    seq |-> nread[c] + 1]]
              /\ nread' = [nread EXCEPT ![c] = @ + 1]
              /\ rpc' = [rpc EXCEPT ![c] = "pushFrame"]
              /\ got' = [got EXCEPT ![c] = [hdr |-> <<>>, pay |-> <<>>]]
              /\ UNCHANGED <<conn, chan, dataBuff, err>>
    /\ UNCHANGED <<authEnable, listener, authpc, dpc, sizeChannel, outChannel,
                   lastOut, wpc, readerVars,
                   samplerVars>>

\* lines 103-107: the frame is offered to the frame queue
PushFrame(c) ==
    /\ rpc[c] = "pushFrame"
    /\ chan' = [chan EXCEPT ![c].q = tryPush(@, frame[c], maxNumPkts)]
    /\ rpc' = [rpc EXCEPT ![c] = "pushSize"]
    /\ frame' = [frame EXCEPT ![c] = NoFrame]
    /\ UNCHANGED <<authEnable, listener, conn, authpc, dataBuff, err, nread,
                   got, dpc, sizeChannel, outChannel, lastOut, wpc, readerVars,
                   samplerVars>>

\* mutant of PushSize: the size is reported only for a frame that the frame
\* queue has just taken
PushSize_ifEnqueued(c) ==
    /\ rpc[c] = "pushSize"
    /\ sizeChannel' = IF chan[c].q # <<>> /\ chan[c].q[Len(chan[c].q)].seq = nread[c]
                        THEN tryPush(sizeChannel,
                                     totalHdrLen + compressedDataLen(dataBuff[c]),
                                     maxNumPkts)
                        ELSE sizeChannel
    /\ rpc' = [rpc EXCEPT ![c] = "hdr"]
    /\ UNCHANGED <<authEnable, listener, conn, authpc, chan, dataBuff, err, frame,
                   nread, got, dpc, outChannel, lastOut, wpc, readerVars,
                   samplerVars>>

\* lines 108-112: the size of the frame is offered to the size queue
PushSize(c) ==
    /\ rpc[c] = "pushSize"
    /\ sizeChannel' = tryPush(sizeChannel,
                              totalHdrLen + compressedDataLen(dataBuff[c]),
                              maxNumPkts)
    /\ rpc' = [rpc EXCEPT ![c] = "hdr"]
    /\ UNCHANGED <<authEnable, listener, conn, authpc, chan, dataBuff, err, frame,
                   nread, got, dpc, outChannel, lastOut, wpc, readerVars,
                   samplerVars>>

(* ---------------- decompressPkts, calculateDataSize, writer ------------ *)

\* the decompression collaborator applied to the payload p
Inflate(p) == [inflated |-> p]

\* decompressPkts of c takes the oldest frame of its queue and offers the
\* decoded text to the output queue; a frame that fails to decompress is dropped
Decompress(c) ==
    /\ dpc[c] = "run"
    /\ chan[c].q # <<>>
    /\ LET f == Head(chan[c].q) IN
       /\ chan' = [chan EXCEPT ![c].q = Tail(@)]
       /\ \/ /\ outChannel' = tryPush(outChannel,
                                      IF f.IsCompressed THEN Inflate(f.Data)
                                      ELSE f.Data,
                                      maxNumPkts * outputQueueFactor)
             /\ lastOut' = [lastOut EXCEPT ![c] =
                             IF Len(outChannel) < maxNumPkts * outputQueueFactor
                               THEN f.seq ELSE @]
          \/ /\ f.IsCompressed
             /\ UNCHANGED <<outChannel, lastOut>>
    /\ UNCHANGED <<authEnable, listener, conn, authpc, rpc, dataBuff, err, frame,
                   nread, got, dpc, sizeChannel, wpc, readerVars,
                   samplerVars>>

\* decompressPkts of c finds its queue closed and drained, and returns
DecompressEnd(c) ==
    /\ dpc[c] = "run"
    /\ chan[c].q = <<>>
    /\ chan[c].closes > 0
    /\ dpc' = [dpc EXCEPT ![c] = "done"]
    /\ UNCHANGED <<authEnable, listener, conn, authpc, chan, rpc, dataBuff, err,
                   frame, nread, got, sizeChannel, outChannel, lastOut, wpc, readerVars,
                   samplerVars>>

\* calculateDataSize takes the oldest report of the size queue; how the report
\* then reaches the running total is followed step by step in SpecSampler
CalculateDataSize ==
    /\ sizeChannel # <<>>
    /\ sizeChannel' = Tail(sizeChannel)
    /\ UNCHANGED <<authEnable, listener, conn, authpc, chan, rpc, dataBuff, err,
                   frame, nread, got, dpc, outChannel, lastOut, wpc, readerVars,
                   samplerVars>>

\* mutant of ReceiverOutput: the loop goes on after writeOutput returned 1
ReceiverOutput_noBreak(Results) ==
    /\ outChannel # <<>>
    /\ outChannel' = Tail(outChannel)
    /\ \E writeOutput \in Results :
         wpc' = IF writeOutput = 1 THEN "done" ELSE wpc
    /\ UNCHANGED <<authEnable, listener, conn, authpc, chan, rpc, dataBuff, err,
                   frame, nread, got, dpc, sizeChannel, lastOut, readerVars,
                   samplerVars>>

\* receiverOutput (lines 118-129): the oldest item is taken and written; the
\* loop breaks when writeOutput returns 1.  Results: what writeOutput may return.
ReceiverOutput(Results) ==
    /\ wpc = "run"
    /\ outChannel # <<>>
    /\ outChannel' = Tail(outChannel)
    /\ \E writeOutput \in Results :
         wpc' = IF writeOutput = 1 THEN "done" ELSE "run"
    /\ UNCHANGED <<authEnable, listener, conn, authpc, chan, rpc, dataBuff, err,
                   frame, nread, got, dpc, sizeChannel, lastOut, readerVars,
                   samplerVars>>

(* ------------------ the running total, step by step -------------------- *)

\* calculateDataSize (started at line 161) receives a report from the size queue
SamplerRecv ==
    /\ spc.pc = "recv"
    /\ sizeChannel # <<>>
    /\ sizeChannel' = Tail(sizeChannel)
    /\ spc' = [pc |-> "load", n |-> Head(sizeChannel), load |-> 0]
    /\ UNCHANGED <<authEnable, listener, conn, authpc, chan, rpc, dataBuff, err,
                   frame, nread, got, dpc, outChannel, lastOut, wpc, readerVars,
                   total, tpc>>

\* calculateDataSize adds the report to the total: it reads the total ...
SamplerLoad ==
    /\ spc.pc = "load"
    /\ spc' = [spc EXCEPT !.pc = "store", !.load = total]
    /\ UNCHANGED <<pipelineVars, readerVars, total, tpc>>

\* ... and writes the sum back
SamplerStore ==
    /\ spc.pc = "store"
    /\ total' = spc.load + spc.n
    /\ spc' = [pc |-> "recv", n |-> 0, load |-> 0]
    /\ UNCHANGED <<pipelineVars, readerVars, tpc>>

\* the ticker goroutine (lines 189-196) gets a tick and calls printDataSize,
\* which reads the total to report it ...
TickPrint ==
    /\ tpc = "wait"
    /\ tpc' = "reset"
    /\ UNCHANGED <<pipelineVars, readerVars, total, spc>>

\* ... and resets it; the goroutine waits for the next tick
TickReset ==
    /\ tpc = "reset"
    /\ total' = 0
    /\ tpc' = "wait"
    /\ UNCHANGED <<pipelineVars, readerVars, spc>>

(* ------------------- the socket reader checked alone ------------------- *)

\* a buffer of n bytes left by earlier calls: a byte no client sends
StaleBuf(n) == [i \in 1..n |-> 7]

\* the call readDataFromSocket(buf[lo:lo+n], n) for any n up to MaxRead, on a
\* buffer that holds earlier bytes and extends one byte past the slice
InitReader ==
    /\ InitPipeline
    /\ InitSampler
    /\ \E n \in 0..MaxRead, lo \in {0, 2} :
         rd = readStart(StaleBuf(lo + n + 1), lo, n)
    /\ rdReads = <<>>

\* a Read that stores a chunk of the client's bytes (line 38); Go lets a
\* Read return bytes together with an error
ReadChunk ==
    /\ rd.ret = "running"
    /\ \E k \in 1..(rd.n - rd.total), e \in ReadErrs \cup {"nil"} :
       \E d \in [1..k -> {97, 98}] :
         /\ rd' = readIter(rd, ReadResult(d, e))
         /\ rdReads' = Append(rdReads, ReadResult(d, e))
    /\ UNCHANGED <<pipelineVars, samplerVars>>

\* a Read that stores nothing: end-of-stream, an expired deadline, another
\* error, or nothing at all
ReadNothing ==
    /\ rd.ret = "running"
    /\ \E e \in ReadErrs \cup {"nil"} :
         /\ rd' = readIter(rd, ReadResult(<<>>, e))
         /\ rdReads' = Append(rdReads, ReadResult(<<>>, e))
    /\ UNCHANGED <<pipelineVars, samplerVars>>

NextReader == ReadChunk \/ ReadNothing

SpecReader == InitReader /\ [][NextReader]_vars

(* ------------------------------ the pipeline --------------------------- *)

\* two connections served concurrently; writeOutput does not fail (a writer
\* that has stopped leaves the output queue as one that is never scheduled)
Next ==
    \/ \E c \in Conns : Accept(c)
    \/ AcceptFail
    \/ \E c \in Conns : AuthDone(c)
    \/ \E c \in Conns : RecvHdr(c, EnvSmall)
    \/ \E c \in Conns : CheckHdr(c)
    \/ \E c \in Conns : RecvPayload(c, EnvSmall)
    \/ \E c \in Conns : BuildFrame(c)
    \/ \E c \in Conns : PushFrame(c)
    \/ \E c \in Conns : PushSize(c)
    \/ \E c \in Conns : Decompress(c)
    \/ \E c \in Conns : DecompressEnd(c)
    \/ CalculateDataSize
    \/ ReceiverOutput({0})

Spec == Init /\ [][Next]_vars

\* the whole pipeline when every connection has to pass the handshake
InitAuth == Init /\ authEnable

SpecAuth == InitAuth /\ [][Next]_vars

\* the whole pipeline, with or without handshake, serving clients that send
\* whole frames until they go away
NextGate ==
    \/ \E c \in Conns : Accept(c)
    \/ AcceptFail
    \/ \E c \in Conns : AuthDone(c)
    \/ \E c \in Conns : RecvHdr(c, EnvFrames)
    \/ \E c \in Conns : CheckHdr(c)
    \/ \E c \in Conns : RecvPayload(c, EnvFrames)
    \/ \E c \in Conns : BuildFrame(c)
    \/ \E c \in Conns : PushFrame(c)
    \/ \E c \in Conns : PushSize(c)
    \/ \E c \in Conns : Decompress(c)
    \/ \E c \in Conns : DecompressEnd(c)
    \/ CalculateDataSize
    \/ ReceiverOutput({0})

SpecGate == Init /\ [][NextGate]_vars

\* the read loop of one connection, accepted without a handshake, with any
\* client and any transport
InitOne == Init /\ ~authEnable

\* the two connections of the whole pipeline, accepted without a handshake
NextPlain ==
    \/ \E c \in Conns : Accept(c)
    \/ AcceptFail
    \/ \E c \in Conns : RecvHdr(c, EnvSmall)
    \/ \E c \in Conns : CheckHdr(c)
    \/ \E c \in Conns : RecvPayload(c, EnvSmall)
    \/ \E c \in Conns : BuildFrame(c)
    \/ \E c \in Conns : PushFrame(c)
    \/ \E c \in Conns : PushSize(c)
    \/ \E c \in Conns : Decompress(c)
    \/ \E c \in Conns : DecompressEnd(c)
    \/ CalculateDataSize
    \/ ReceiverOutput({0})

SpecPlain == InitOne /\ [][NextPlain]_vars

NextOne ==
    \/ Accept("A")
    \/ RecvHdr("A", EnvRich)
    \/ CheckHdr("A")
    \/ RecvPayload("A", EnvRich)
    \/ BuildFrame("A")
    \/ PushFrame("A")
    \/ PushSize("A")

SpecOne == InitOne /\ [][NextOne]_vars

\* one connection reporting sizes, calculateDataSize and the ticker goroutine
NextSampler ==
    \/ Accept("A")
    \/ RecvHdr("A", EnvSmall)
    \/ CheckHdr("A")
    \/ RecvPayload("A", EnvSmall)
    \/ BuildFrame("A")
    \/ PushFrame("A")
    \/ PushSize("A")
    \/ SamplerRecv
    \/ SamplerLoad
    \/ SamplerStore
    \/ TickPrint
    \/ TickReset

SpecSampler == InitOne /\ [][NextSampler]_vars

\* two connections, accepted without a handshake, and a writer whose
\* writeOutput may fail
NextWriter ==
    \/ \E c \in Conns : Accept(c)
    \/ \E c \in Conns : RecvHdr(c, EnvFrames)
    \/ \E c \in Conns : CheckHdr(c)
    \/ \E c \in Conns : RecvPayload(c, EnvFrames)
    \/ \E c \in Conns : BuildFrame(c)
    \/ \E c \in Conns : PushFrame(c)
    \/ \E c \in Conns : PushSize(c)
    \/ \E c \in Conns : Decompress(c)
    \/ \E c \in Conns : DecompressEnd(c)
    \/ CalculateDataSize
    \/ ReceiverOutput({0, 1})

SpecWriter == InitOne /\ [][NextWriter]_vars

(* ======================= the claims, two connections =================== *)

Running == {"hdr", "hdrRead", "payload", "payRead", "pushFrame", "pushSize"}

Other(c) == CHOOSE d \in Conns : d # c

RECURSIVE Increasing(_)
Increasing(q) ==
    IF Len(q) < 2 THEN TRUE ELSE q[1] < q[2] /\ Increasing(Tail(q))

SeqsOf(q) == [i \in 1..Len(q) |-> q[i].seq]

\* the step of readPkts of c that offers a frame to a full frame queue
\* leaves the queue as it was and goes on to the size report
C1_FrameDropped ==
    \A c \in Conns :
        (rpc[c] = "pushFrame" /\ rpc'[c] # "pushFrame" /\ Len(chan[c].q) = maxNumPkts)
        => (chan'[c].q = chan[c].q /\ rpc'[c] = "pushSize")

\* the step that offers a size to the full size queue leaves the queue as it
\* was and goes back to reading
C1_SizeDropped ==
    \A c \in Conns :
        (rpc[c] = "pushSize" /\ rpc'[c] # "pushSize" /\ Len(sizeChannel) = maxNumPkts)
        => (sizeChannel' = sizeChannel /\ rpc'[c] = "hdr")

\* the queues are within their capacity, and a read loop that stands before
\* a push can always take the step, whatever the queue holds
C1_Bounded ==
    /\ Len(sizeChannel) <= maxNumPkts
    /\ \A c \in Conns :
         /\ Len(chan[c].q) <= maxNumPkts
         /\ rpc[c] = "pushFrame" => ENABLED PushFrame(c)
         /\ rpc[c] = "pushSize" => ENABLED PushSize(c)

\* C1: the frame queue of every connection and the size queue never hold more
\* than their capacity; a push on a full queue does not block the read loop,
\* leaves the queue's contents unchanged and discards the item being pushed.
C1_Backpressure == []C1_Bounded /\ [][C1_FrameDropped /\ C1_SizeDropped]_vars

\* a read loop has just had its third frame dropped by its full frame queue
\* and is about to offer a size to the full size queue
C1_Witness ==
    \E c \in Conns :
        /\ rpc[c] = "pushSize"
        /\ Len(chan[c].q) = maxNumPkts
        /\ chan[c].q[Len(chan[c].q)].seq < nread[c]
        /\ Len(sizeChannel) = maxNumPkts

\* the frames waiting in the frame queue of c are in the order they were
\* built and are younger than every frame of c already on the output queue
C2_QueueInOrder ==
    \A c \in Conns :
        /\ Increasing(SeqsOf(chan[c].q))
        /\ \A i \in 1..Len(chan[c].q) :
             lastOut[c] < chan[c].q[i].seq /\ chan[c].q[i].seq <= nread[c]

\* a frame of c that goes on the output queue was built after every frame
\* of c that went there before
C2_OutInOrder ==
    \A c \in Conns :
        lastOut'[c] # lastOut[c] => (lastOut[c] < lastOut'[c] /\ lastOut'[c] <= nread[c])

\* C2: the frames of one connection reach the output queue in the order in
\* which they were read, in every interleaving with the other connection.
C2_OrderPreserved == []C2_QueueInOrder /\ [][C2_OutInOrder]_vars

\* the output queue holds the first two frames of one connection while the
\* other connection is being read
C2_Witness ==
    \E c \in Conns :
        /\ Len(outChannel) = 2
        /\ lastOut[c] = 2
        /\ Len(chan[c].q) = 1
        /\ lastOut[Other(c)] = 0
        /\ rpc[Other(c)] \in Running
        /\ nread[Other(c)] > 0

\* the step that ends the read loop of a leaves everything of b alone
C3_LocalStep ==
    \A a \in Conns :
        (rpc[a] \in Running /\ rpc'[a] = "done")
        => LET b == Other(a) IN
           /\ conn'[b] = conn[b] /\ chan'[b] = chan[b] /\ rpc'[b] = rpc[b]
           /\ dataBuff'[b] = dataBuff[b] /\ dpc'[b] = dpc[b]

\* once a has ended, a frame b offers to its queue is enqueued when there is room
C3_StillEnqueued ==
    \A a \in Conns :
        LET b == Other(a) IN
        (rpc[a] = "done" /\ rpc[b] = "pushFrame" /\ rpc'[b] # "pushFrame"
            /\ Len(chan[b].q) < maxNumPkts)
        => chan'[b].q = Append(chan[b].q, frame[b])

\* while a has ended and b has not, b's handle and queue are open and b's
\* read loop can take its next step
C3_OtherRuns ==
    \A a \in Conns :
        LET b == Other(a) IN
        (rpc[a] = "done" /\ rpc[b] \in Running)
        => /\ conn[b].closes = 0
           /\ chan[b].closes = 0
           /\ chan[b].made
           /\ ENABLED (\/ RecvHdr(b, EnvSmall) \/ CheckHdr(b)
                       \/ RecvPayload(b, EnvSmall) \/ BuildFrame(b)
                       \/ PushFrame(b) \/ PushSize(b))

\* C3: a protocol violation or transport failure on one connection closes
\* only that connection's handle and frame queue; the other connection's read
\* loop goes on, its queue stays open and its later frames are enqueued.
C3_Isolation == []C3_OtherRuns /\ [][C3_LocalStep /\ C3_StillEnqueued]_vars

\* one connection ended before it built a frame, and the other has since
\* put its third frame on its open queue
C3_Witness ==
    \E a \in Conns :
        LET b == Other(a) IN
        /\ rpc[a] = "done" /\ nread[a] = 0
        /\ rpc[b] = "pushSize" /\ nread[b] = 3
        /\ chan[b].q # <<>> /\ chan[b].q[Len(chan[b].q)].seq = 3
        /\ chan[b].closes = 0 /\ conn[b].closes = 0

\* C5: a connection whose handshake was rejected gets no frame queue, no
\* decompression stage and no read loop, nothing of it reaches the size queue
\* or the output queue, and its handle is closed.
C5_RejectedNeverServed ==
    \A c \in Conns :
        authpc[c] = "rejected"
        => /\ authEnable
           /\ ~chan[c].made /\ chan[c].q = <<>>
           /\ dpc[c] = "none"
           /\ rpc[c] = "none"
           /\ nread[c] = 0
           /\ lastOut[c] = 0
           /\ conn[c].closes = 1

\* one connection was rejected while the other, accepted, got frames out
C5_Witness ==
    \E c \in Conns :
        /\ authpc[c] = "rejected"
        /\ authpc[Other(c)] = "accepted"
        /\ lastOut[Other(c)] = 2
        /\ sizeChannel # <<>>

\* while a handshake is pending the acceptor can accept the other
\* connection, and the read loop of the other connection can take its step
C17_AcceptNotHeld ==
    \A c \in Conns :
        LET d == Other(c) IN
        (authEnable /\ authpc[c] = "pending")
        => /\ (listener = "open" /\ ~conn[d].accepted) => ENABLED Accept(d)
           /\ authpc[d] = "pending" => ENABLED AuthDone(d)
           /\ rpc[d] \in Running
              => ENABLED (\/ RecvHdr(d, EnvSmall) \/ CheckHdr(d)
                          \/ RecvPayload(d, EnvSmall) \/ BuildFrame(d)
                          \/ PushFrame(d) \/ PushSize(d))

\* while the handshake of c stays pending: a connection that is accepted
\* gets its own pending handshake, and one whose handshake succeeds gets its
\* frame queue, its decompression stage and its read loop
C17_HandshakeAside ==
    \A c \in Conns :
        LET d == Other(c) IN
        (authEnable /\ authpc[c] = "pending" /\ authpc'[c] = "pending")
        => /\ (~conn[d].accepted /\ conn'[d].accepted) => authpc'[d] = "pending"
           /\ (authpc[d] = "pending" /\ authpc'[d] = "accepted")
              => ( /\ chan'[d].made /\ chan'[d].closes = 0
                   /\ dpc'[d] = "run" /\ rpc'[d] = "hdr" )

\* C17: with authentication enabled the accept loop does not wait for a
\* handshake: while one is pending, for however long, further connections
\* are accepted, and those whose handshake succeeds get their pipelines.
C17_AcceptNotBlocked == []C17_AcceptNotHeld /\ [][C17_HandshakeAside]_vars

\* one handshake is still pending while the other connection, accepted and
\* authenticated, has had its third frame read
C17_Witness ==
    \E c \in Conns :
        /\ authEnable /\ authpc[c] = "pending"
        /\ authpc[Other(c)] = "accepted"
        /\ nread[Other(c)] = 3 /\ rpc[Other(c)] = "pushSize"

(* ===================== the claims, one connection ====================== *)

Last(q) == q[Len(q)]

\* the bytes the transport delivered to the header read and to the payload
\* read of the current iteration of readPkts of c
HdrBytes(c) == Delivered(got[c].hdr)

PayBytes(c) == Delivered(got[c].pay)

\* the length a header h declares: its bytes 4..7, little-endian
DeclaredLen(h) == h[5] + 256 * h[6] + 65536 * h[7] + 16777216 * h[8]

\* a read loop that has ended has closed its handle and its queue once, and
\* one that is going on has closed neither
C4_ClosedOnce ==
    \A c \in Conns :
        /\ rpc[c] = "done" => (conn[c].closes = 1 /\ chan[c].closes = 1)
        /\ rpc[c] \in Running => (conn[c].closes = 0 /\ chan[c].closes = 0)

\* each of the four failures ends the read loop, closing both in that step
C4_PathsClose ==
    \A c \in Conns :
        /\ ( /\ rpc[c] = "hdrRead" /\ rpc'[c] # "hdrRead"
             /\ \/ err[c] # "nil"
                \/ ~(SubSeq(dataBuff[c], 1, 4) = hdrData)
                \/ DeclaredLen(dataBuff[c]) > bufLen - totalHdrLen )
           => ( /\ rpc'[c] = "done"
                /\ conn'[c].closes = conn[c].closes + 1
                /\ chan'[c].closes = chan[c].closes + 1 )
        /\ (rpc[c] = "payRead" /\ rpc'[c] # "payRead" /\ err[c] # "nil")
           => ( /\ rpc'[c] = "done"
                /\ conn'[c].closes = conn[c].closes + 1
                /\ chan'[c].closes = chan[c].closes + 1 )
        /\ rpc[c] = "done" => rpc'[c] = "done"

\* C4: on every path by which a read loop ends (header read failure, bad
\* magic, oversized length, payload read failure) the handle and the frame
\* queue are each closed exactly once, and it ends on no other path.
C4_TeardownOnce == []C4_ClosedOnce /\ [][C4_PathsClose]_vars

\* the read loop ended after two frames, both still in the closed queue
C4_Witness ==
    /\ rpc["A"] = "done" /\ nread["A"] = 2
    /\ conn["A"].closes = 1 /\ chan["A"].closes = 1
    /\ Len(chan["A"].q) = 2

\* a read that end-of-stream cut short returned the abrupt-close error
C7_AbruptError ==
    \A c \in Conns :
        /\ ( /\ rpc[c] = "hdrRead" /\ Last(got[c].hdr).err = "EOF"
             /\ Len(HdrBytes(c)) < totalHdrLen )
           => err[c] = "ErrAbrupt"
        /\ ( /\ rpc[c] = "payRead" /\ Last(got[c].pay).err = "EOF"
             /\ Len(PayBytes(c)) < DeclaredLen(dataBuff[c]) )
           => err[c] = "ErrAbrupt"

\* after the abrupt-close error the read loop ends without building a frame
C7_NoFrame ==
    \A c \in Conns :
        (rpc[c] \in {"hdrRead", "payRead"} /\ err[c] = "ErrAbrupt" /\ rpc'[c] # rpc[c])
        => ( /\ rpc'[c] = "done" /\ nread'[c] = nread[c]
             /\ frame'[c] = frame[c] /\ chan'[c].q = chan[c].q )

\* C7: end-of-stream before the n > 0 bytes asked for have been delivered
\* makes readDataFromSocket return the abrupt-close error, never success, and
\* no frame is built from the read that was cut short.
C7_AbruptClose == []C7_AbruptError /\ [][C7_NoFrame]_vars

\* the payload read of the second frame met end-of-stream after one byte of two
C7_Witness ==
    /\ rpc["A"] = "payRead" /\ err["A"] = "ErrAbrupt"
    /\ Len(PayBytes("A")) = 1 /\ DeclaredLen(dataBuff["A"]) = 2
    /\ nread["A"] = 1

\* C8: when the nine bytes of a header have been read and the first four
\* are not DE EF EC E0, the connection ends there: no payload read, no
\* frame on the frame queue and no size on the size queue.
C8_BadMagicEnds ==
    [][\A c \in Conns :
        ( /\ rpc[c] = "hdrRead" /\ rpc'[c] # "hdrRead" /\ err[c] = "nil"
          /\ Len(HdrBytes(c)) = totalHdrLen
          /\ SubSeq(HdrBytes(c), 1, 4) # <<222, 239, 236, 224>> )
        => ( /\ rpc'[c] = "done"
             /\ conn'[c].closes = 1 /\ chan'[c].closes = 1
             /\ chan'[c].q = chan[c].q /\ sizeChannel' = sizeChannel
             /\ nread'[c] = nread[c] )]_vars

\* the second header read brought a magic wrong in its last byte only
C8_Witness ==
    /\ rpc["A"] = "hdrRead" /\ err["A"] = "nil"
    /\ Len(HdrBytes("A")) = totalHdrLen
    /\ SubSeq(HdrBytes("A"), 1, 4) = <<222, 239, 236, 225>>
    /\ nread["A"] = 1

\* a payload read that returned after full delivery delivered as many
\* bytes as the header declared
C9_ReadsDeclared ==
    \A c \in Conns :
        ( /\ rpc[c] = "payRead" /\ err[c] = "nil"
          /\ Len(HdrBytes(c)) = totalHdrLen
          /\ \A i \in 1..Len(got[c].pay) :
               got[c].pay[i].err = "nil"
               /\ (got[c].pay[i].data = <<>> => DeclaredLen(HdrBytes(c)) = 0) )
        => Len(PayBytes(c)) = DeclaredLen(HdrBytes(c))

\* a header with the magic ends the connection when its length is over the
\* bound and leads to the payload read when it is not
C9_LengthCheck ==
    \A c \in Conns :
        ( /\ rpc[c] = "hdrRead" /\ rpc'[c] # "hdrRead" /\ err[c] = "nil"
          /\ Len(HdrBytes(c)) = totalHdrLen
          /\ SubSeq(HdrBytes(c), 1, 4) = <<222, 239, 236, 224>> )
        => IF DeclaredLen(HdrBytes(c)) > compressBlockBytes - 9
             THEN /\ rpc'[c] = "done"
                  /\ conn'[c].closes = 1 /\ chan'[c].closes = 1
             ELSE /\ rpc'[c] = "payload"
                  /\ conn'[c].closes = 0 /\ chan'[c].closes = 0

\* C9: with a valid magic, a declared length over maxFrameBytes - 9 ends the
\* connection before any payload read; a length up to and including that
\* bound is accepted and the payload read is for exactly that length.
C9_LengthBound == []C9_ReadsDeclared /\ [][C9_LengthCheck]_vars

\* a payload that fills the buffer exactly has been read for the second frame
C9_Witness ==
    /\ rpc["A"] = "payRead" /\ err["A"] = "nil"
    /\ Len(HdrBytes("A")) = totalHdrLen
    /\ DeclaredLen(HdrBytes("A")) = compressBlockBytes - 9
    /\ Len(PayBytes("A")) = compressBlockBytes - 9
    /\ nread["A"] = 1

\* C10: when a header with the magic, the length of P and a flag f, and then
\* P, have been delivered, the frame built has P as its payload and is
\* compressed exactly when f is not 0; so for every frame of the stream.
C10_RoundTrip ==
    [][\A c \in Conns :
        ( /\ rpc[c] = "payRead" /\ rpc'[c] = "pushFrame"
          /\ Len(HdrBytes(c)) = totalHdrLen
          /\ Len(PayBytes(c)) = DeclaredLen(HdrBytes(c)) )
        => ( /\ frame'[c].Data = PayBytes(c)
             /\ Len(frame'[c].Data) = DeclaredLen(HdrBytes(c))
             /\ frame'[c].IsCompressed = (HdrBytes(c)[9] # 0)
             /\ frame'[c].seq = nread[c] + 1 )]_vars

\* the second frame, flagged 2, has been read in two pieces into the buffer
\* that still held the first frame's payload
C10_Witness ==
    /\ rpc["A"] = "payRead" /\ err["A"] = "nil" /\ nread["A"] = 1
    /\ Len(HdrBytes("A")) = totalHdrLen /\ HdrBytes("A")[9] = 2
    /\ PayBytes("A") = <<98, 97>> /\ Len(got["A"].pay) = 2
    /\ Len(chan["A"].q) = 1 /\ Head(chan["A"].q).Data = <<97, 98>>

\* C11: a read deadline that expires on a header read before any byte has
\* been accumulated is a soft condition: the read loop goes back to reading
\* the header, and neither the handle nor the frame queue is closed.
C11_IdleSurvives ==
    [][\A c \in Conns :
        ( /\ rpc[c] = "hdrRead" /\ rpc'[c] # "hdrRead"
          /\ Last(got[c].hdr).err = "timeout"
          /\ HdrBytes(c) = <<>> )
        => ( /\ rpc'[c] = "hdr"
             /\ conn'[c].closes = 0
             /\ chan'[c].closes = 0 )]_vars

\* C12: when a Read that was asked for bytes brings none and no error, the
\* read loop stops this connection: no header is validated, no frame is
\* built from what the buffer held before, and no size is reported.
C12_ZeroReadStops ==
    [][\A c \in Conns :
        /\ ( /\ rpc[c] = "hdrRead" /\ rpc'[c] # "hdrRead"
             /\ Last(got[c].hdr) = ReadResult(<<>>, "nil") )
           => ( /\ rpc'[c] = "done"
                /\ nread'[c] = nread[c]
                /\ chan'[c].q = chan[c].q /\ sizeChannel' = sizeChannel )
        /\ ( /\ rpc[c] = "payRead" /\ rpc'[c] # "payRead"
             /\ DeclaredLen(dataBuff[c]) > 0
             /\ Last(got[c].pay) = ReadResult(<<>>, "nil") )
           => ( /\ rpc'[c] = "done"
                /\ nread'[c] = nread[c]
                /\ chan'[c].q = chan[c].q /\ sizeChannel' = sizeChannel )]_vars

\* a read whose deadline expired after some but not all of its bytes
\* returned the deadline error
C13_TimeoutError ==
    \A c \in Conns :
        /\ ( /\ rpc[c] = "hdrRead" /\ Last(got[c].hdr).err = "timeout"
             /\ 0 < Len(HdrBytes(c)) /\ Len(HdrBytes(c)) < totalHdrLen )
           => err[c] = "ErrTimeout"
        /\ ( /\ rpc[c] = "payRead" /\ Last(got[c].pay).err = "timeout"
             /\ 0 < Len(PayBytes(c)) /\ Len(PayBytes(c)) < DeclaredLen(dataBuff[c]) )
           => err[c] = "ErrTimeout"

\* after that error the read loop ends: handle and queue are closed, no
\* frame is built and nothing is enqueued; a read loop that ended stays ended
C13_Terminal ==
    \A c \in Conns :
        /\ ( /\ rpc[c] \in {"hdrRead", "payRead"} /\ rpc'[c] # rpc[c]
             /\ LET reads == IF rpc[c] = "hdrRead" THEN got[c].hdr ELSE got[c].pay IN
                Last(reads).err = "timeout" /\ Delivered(reads) # <<>> )
           => ( /\ rpc'[c] = "done"
                /\ conn'[c].closes = 1 /\ chan'[c].closes = 1
                /\ nread'[c] = nread[c] /\ frame'[c] = frame[c]
                /\ chan'[c].q = chan[c].q /\ sizeChannel' = sizeChannel )
        /\ rpc[c] = "done" => (rpc'[c] = "done" /\ nread'[c] = nread[c])

\* C13: a read deadline that expires after some but not all bytes of the
\* header or payload read makes the reader fail, and the connection ends:
\* handle and frame queue are closed, the read is not resumed, and no frame
\* is built from the partly filled buffer.
C13_PartialTimeoutEnds == []C13_TimeoutError /\ [][C13_Terminal]_vars

\* the deadline expired four bytes into the header of the second frame
C13_Witness ==
    /\ rpc["A"] = "hdrRead" /\ err["A"] = "ErrTimeout" /\ nread["A"] = 1
    /\ Len(HdrBytes("A")) = 4 /\ Last(got["A"].hdr).err = "timeout"

(* ================ the claims, the pipeline of a connection ============= *)

\* the connection c has been accepted and has passed the gate
C18_Passed(c) ==
    \/ ~authEnable /\ conn[c].accepted
    \/ authEnable /\ authpc[c] = "accepted"

\* a connection has a frame queue, a read loop and a decompression stage
\* when it has passed the gate, and none of them when it has not
C18_OnePipeline ==
    \A c \in Conns :
        IF C18_Passed(c)
          THEN chan[c].made /\ rpc[c] # "none" /\ dpc[c] # "none"
          ELSE ~chan[c].made /\ chan[c].q = <<>> /\ rpc[c] = "none" /\ dpc[c] = "none"

\* the step that passes c through the gate makes an empty open queue and
\* starts both tasks on it; they are not started again; and no step
\* touches the frame queues of both connections
C18_StartedOnce ==
    \A c \in Conns :
        /\ (~C18_Passed(c) /\ C18_Passed(c)')
           => ( /\ chan'[c] = [made |-> TRUE, q |-> <<>>, closes |-> 0]
                /\ rpc'[c] = "hdr" /\ dpc'[c] = "run" )
        /\ C18_Passed(c)
           => ( /\ C18_Passed(c)'
                /\ rpc[c] = "done" => rpc'[c] = "done"
                /\ dpc[c] = "done" => dpc'[c] = "done"
                /\ chan'[c].closes >= chan[c].closes )
        /\ chan'[c] # chan[c]
           => ( /\ chan'[Other(c)] = chan[Other(c)]
                /\ rpc'[Other(c)] = rpc[Other(c)]
                /\ dpc'[Other(c)] = dpc[Other(c)] )

\* the read loop of every connection reports to the one size queue and the
\* decompression stage of every connection feeds the one output queue
C18_SharedQueues ==
    \A c \in Conns :
        /\ (rpc[c] = "pushSize" /\ rpc'[c] # "pushSize" /\ Len(sizeChannel) < maxNumPkts)
           => sizeChannel' = Append(sizeChannel, totalHdrLen + DeclaredLen(dataBuff[c]))
        /\ lastOut'[c] # lastOut[c]
           => ( /\ Len(outChannel') = Len(outChannel) + 1
                /\ SubSeq(outChannel', 1, Len(outChannel)) = outChannel
                /\ Len(chan'[c].q) = Len(chan[c].q) - 1 )

\* C18: every connection that passes the gate gets exactly one read loop and
\* one decompression stage on one new frame queue of its own, and both
\* work on the one size queue and the one output queue.
C18_OnePipelineEach == []C18_OnePipeline /\ [][C18_StartedOnce /\ C18_SharedQueues]_vars

\* both connections passed the handshake, and the size queue and the output
\* queue hold items of both
C18_Witness ==
    /\ authEnable
    /\ \A c \in Conns : authpc[c] = "accepted" /\ nread[c] = 1 /\ lastOut[c] = 1
    /\ Len(sizeChannel) = 2 /\ Len(outChannel) = 2

\* no frame queue has been closed twice, and a read loop that has not
\* ended, which may yet push, has not closed its queue
C19_OpenWhilePushing ==
    \A c \in Conns :
        /\ chan[c].closes <= 1
        /\ rpc[c] \in Running => chan[c].closes = 0
        /\ chan[c].closes = 1 => rpc[c] = "done"

\* a frame queue grows only by the push of its own read loop and is closed
\* only by the step that ends its own read loop; once closed it is neither
\* pushed to nor closed again
C19_OwnSenderCloser ==
    \A c \in Conns :
        /\ Len(chan'[c].q) > Len(chan[c].q)
           => (rpc[c] = "pushFrame" /\ rpc'[c] = "pushSize" /\ chan[c].closes = 0)
        /\ chan'[c].closes # chan[c].closes
           => ( /\ rpc[c] \in {"hdrRead", "payRead"} /\ rpc'[c] = "done"
                /\ chan[c].closes = 0 /\ chan'[c].closes = 1 )
        /\ chan[c].closes = 1
           => ( /\ Len(chan'[c].q) <= Len(chan[c].q)
                /\ chan'[c].closes = 1
                /\ rpc'[c] = "done" )

\* C19: no push is attempted on a frame queue that has been closed and no
\* frame queue is closed twice: the read loop of the connection is its only
\* sender and closer and does neither after closing, in every interleaving.
C19_NoPushAfterClose == []C19_OpenWhilePushing /\ [][C19_OwnSenderCloser]_vars

\* a closed queue still holds two frames for its decompression stage while
\* the other connection is about to push
C19_Witness ==
    \E c \in Conns :
        /\ rpc[c] = "done" /\ chan[c].closes = 1
        /\ Len(chan[c].q) = 2 /\ dpc[c] = "run"
        /\ rpc[Other(c)] = "pushFrame" /\ chan[Other(c)].closes = 0

\* a read loop that stands before the size report can always make it
C20_ReportReady ==
    \A c \in Conns : rpc[c] = "pushSize" => ENABLED PushSize(c)

\* a frame that was read is offered to the frame queue and then, whether the
\* queue took it or not, its size of 9 + declared length is offered to the
\* size queue, which takes it when it has room
C20_SizeOffered ==
    \A c \in Conns :
        /\ (rpc[c] = "payRead" /\ err[c] = "nil" /\ rpc'[c] # "payRead")
           => rpc'[c] = "pushFrame"
        /\ (rpc[c] = "pushFrame" /\ rpc'[c] # "pushFrame")
           => ( /\ rpc'[c] = "pushSize"
                /\ dataBuff'[c] = dataBuff[c]
                /\ sizeChannel' = sizeChannel )
        /\ (rpc[c] = "pushSize" /\ rpc'[c] # "pushSize")
           => ( /\ rpc'[c] = "hdr"
                /\ chan'[c] = chan[c]
                /\ sizeChannel' = IF Len(sizeChannel) < maxNumPkts
                                    THEN Append(sizeChannel, 9 + DeclaredLen(dataBuff[c]))
                                    ELSE sizeChannel )

\* C20: for every frame read, the read loop offers 9 + declared length to
\* the size queue whether or not the frame queue took the frame: frames
\* dropped at a full frame queue are counted, and a size report can be
\* dropped for a frame that was enqueued.
C20_SizeWhateverFrame == []C20_ReportReady /\ [][C20_SizeOffered]_vars

\* the only connection has read three frames: the first two still fill its
\* frame queue, so the third was dropped there, and the one report on the
\* size queue is the third frame's
C20_Witness ==
    \E c \in Conns :
        /\ rpc[c] = "hdr" /\ nread[c] = 3
        /\ SeqsOf(chan[c].q) = <<1, 2>>
        /\ ~conn[Other(c)].accepted
        /\ sizeChannel = <<10>>

(* =================== the claims, the socket reader alone =============== *)

\* every Read so far stored at least one byte and returned no error
ReaderClean ==
    \A i \in 1..Len(rdReads) : rdReads[i].err = "nil" /\ rdReads[i].data # <<>>

\* C6: while the transport delivers the n bytes in non-empty chunks without
\* error, readDataFromSocket goes on until exactly n bytes are accumulated
\* and then returns success; the slice holds the delivered bytes in order
\* and nothing else of the buffer has changed.
C6_ExactRead ==
    ReaderClean
    => LET src == Delivered(rdReads) IN
       /\ rd.total = Len(src)
       /\ rd.total <= rd.n
       /\ \A i \in 1..Len(rd.buf) :
            rd.buf[i] = IF i > rd.lo /\ i <= rd.lo + rd.total THEN src[i - rd.lo]
                        ELSE StaleBuf(Len(rd.buf))[i]
       /\ rd.ret = IF rd.total = rd.n /\ rd.n > 0 THEN "nil" ELSE "running"
       /\ rd.iters = Len(rdReads)

\* the largest read was served one byte at a time
C6_Witness ==
    /\ ReaderClean
    /\ rd.ret = "nil" /\ rd.n = MaxRead /\ rd.lo = 2
    /\ Len(rdReads) = MaxRead
    /\ Delivered(rdReads)[1] # Delivered(rdReads)[MaxRead]

\* the accumulated count is within n, and a call that is still looping has
\* stored at least one byte in each of its iterations and has bytes left to read
C16_CountBounded ==
    /\ rd.total <= rd.n
    /\ rd.ret = "running" => (rd.iters <= rd.total /\ (rd.total < rd.n \/ rd.iters = 0))

\* an iteration of the loop returns or strictly increases the count, and
\* while the loop goes on the next Read can be taken
C16_Progress ==
    /\ (rd.ret = "running" /\ rd' # rd)
       => ( /\ rd'.iters = rd.iters + 1
            /\ rd'.ret # "running" \/ rd'.total > rd.total )
    /\ rd.ret # "running" => rd' = rd

\* C16 as stated: each iteration returns or strictly increases the count,
\* which stays within n, and a call for n bytes runs at most n iterations.
C16_AtMostN ==
    [](C16_CountBounded /\ rd.iters <= rd.n) /\ [][C16_Progress]_vars

\* C16 amended: each iteration returns or strictly increases the count,
\* which stays within n, and a call for n bytes runs at most n iterations,
\* or one iteration when n is 0.
C16_Terminates ==
    [](C16_CountBounded /\ rd.iters <= (IF rd.n = 0 THEN 1 ELSE rd.n))
    /\ [][C16_Progress]_vars

\* the largest read took one byte per Read and met the deadline in its
\* last possible iteration
C16_Witness ==
    /\ rd.n = MaxRead /\ rd.iters = MaxRead
    /\ rd.total = MaxRead - 1 /\ rd.ret = "ErrTimeout"

(* ========================= the claims, the writer ====================== *)

\* once the writer has ended on a failed write the output queue only grows
C15_NoMoreTaken ==
    wpc = "done"
    => ( /\ wpc' = "done"
         /\ Len(outChannel') >= Len(outChannel)
         /\ SubSeq(outChannel', 1, Len(outChannel)) = outChannel )

\* after that, a decompression stage that takes a frame while the output
\* queue is full leaves the output queue as it was, and a read loop that
\* offers a frame to a queue with room enqueues it
C15_DropAndEnqueue ==
    \A c \in Conns :
        /\ ( /\ wpc = "done" /\ Len(chan'[c].q) < Len(chan[c].q)
             /\ Len(outChannel) = maxNumPkts * outputQueueFactor )
           => (outChannel' = outChannel /\ chan'[c].q = Tail(chan[c].q) /\ dpc'[c] = "run")
        /\ ( /\ wpc = "done" /\ rpc[c] = "pushFrame" /\ rpc'[c] # "pushFrame"
             /\ Len(chan[c].q) < maxNumPkts )
           => chan'[c].q = Append(chan[c].q, frame[c])

\* after that, the acceptor can accept, every read loop can take its next
\* step and every decompression stage with a frame waiting can take it
C15_KeepRunning ==
    wpc = "done"
    => \A c \in Conns :
         /\ (listener = "open" /\ ~conn[c].accepted) => ENABLED Accept(c)
         /\ rpc[c] \in Running
            => ENABLED (\/ RecvHdr(c, EnvFrames) \/ CheckHdr(c)
                        \/ RecvPayload(c, EnvFrames) \/ BuildFrame(c)
                        \/ PushFrame(c) \/ PushSize(c))
         /\ (dpc[c] = "run" /\ chan[c].q # <<>>) => ENABLED Decompress(c)
         /\ (dpc[c] = "run" /\ chan[c].q = <<>> /\ chan[c].closes > 0)
            => ENABLED DecompressEnd(c)

\* C15: after the writer has ended on a write failure nothing is taken from
\* the output queue any more, while the acceptor, the read loops and the
\* decompression stages go on without blocking: a full output queue makes
\* its producers drop, and read loops still read and enqueue frames.
C15_WriterFailure ==
    []C15_KeepRunning /\ [][C15_NoMoreTaken /\ C15_DropAndEnqueue]_vars

\* the writer has ended and the output queue is full of frames of both
\* connections; one connection has just enqueued its second frame, which
\* the output queue has no room for
C15_Witness ==
    \E c \in Conns :
        /\ wpc = "done"
        /\ Len(outChannel) = maxNumPkts * outputQueueFactor
        /\ rpc[c] = "pushSize" /\ nread[c] = 2
        /\ lastOut[c] = 1
        /\ Len(chan[c].q) = 1 /\ Head(chan[c].q).seq = 2
        /\ lastOut[Other(c)] > 0

(* ========================= the claims, the sampler ===================== *)

\* the two goroutines are never both between reading and writing the total
C14_NoConcurrentAccess == ~(spc.pc = "store" /\ tpc = "reset")

\* a step that changes the total is a step of calculateDataSize
C14_OnlySampler == total' # total => (spc.pc = "store" /\ spc'.pc = "recv")

\* C14: the running total is read, incremented and reset by one task only,
\* the one that consumes the size queue; the ticker task does not touch it,
\* and the two are never inside an access to the total at the same time.
C14_SingleOwner == []C14_NoConcurrentAccess /\ [][C14_OnlySampler]_vars

====
